---- MODULE Spec2Model ----
(***************************************************************************)
(* WinCoreUtils: the directory lister wls (flag normalizer, entry          *)
(* collector, classifier, layout engine), the alias wrapper wla and the    *)
(* file-type detector wfile.                                               *)
(*                                                                         *)
(* Strings are sequences of bytes (Go strings and C strings are byte       *)
(* strings): "-la" is <<45, 108, 97>>.  A character outside ASCII takes    *)
(* several bytes in UTF-8: e-acute is <<195, 169>>.                        *)
(***************************************************************************)
EXTENDS Integers, Sequences, FiniteSets

VARIABLES
    \* ---- wls (src/unnamed/part_000) ----
    pc,        \* position in main
    osArgs,    \* os.Args[1:], the arguments not yet consumed
    longFlag,  \* *longFlag
    allFlag,   \* *allFlag
    dir,       \* the target directory
    parseErr,  \* what flag.Parse met: "none", "help" or "error"
    readErr,   \* os.ReadDir returned an error
    entries,   \* what os.ReadDir returned
    names,     \* the collected names
    width,     \* terminal width
    colWidth, cols, rows,
    out,       \* standard output: a sequence of lines, each a sequence of cells
    errOut,    \* standard error: a sequence of lines
    exitCode,  \* the process exit code, -1 while running
    \* ---- expandCombinedFlags applied repeatedly ----
    nPc, nArgs, nOnce, nTwice,
    \* ---- wla (src/unnamed/part_001) ----
    wlaPc, argv, cmd, spawned, waited, childState, childExit, wlaExit,
    \* ---- wfile (src/wfile/wfile.go) ----
    wfPc, wfArgs, wfI, wfOut, wfExit

wlsVars == <<pc, osArgs, longFlag, allFlag, dir, parseErr, readErr, entries,
             names, width, colWidth, cols, rows, out, errOut, exitCode>>
normVars == <<nPc, nArgs, nOnce, nTwice>>
wlaVars == <<wlaPc, argv, cmd, spawned, waited, childState, childExit, wlaExit>>
wfVars == <<wfPc, wfArgs, wfI, wfOut, wfExit>>
vars == <<wlsVars, normVars, wlaVars, wfVars>>

----------------------------------------------------------------------------
\* Bounds of the model.

\* longest argument list given to wls and to expandCombinedFlags
MaxArgs == 2
\* most entries a directory read returns
MaxEntries == 3
\* widest terminal the console reports (80 is used when it reports none)
MaxWidth == 12
\* longest argument list given to wla
MaxWlaArgs == 2
\* longest argument list given to wfile
MaxPaths == 2

----------------------------------------------------------------------------
\* Byte strings.

\* strings.HasPrefix
HasPrefix(s, p) ==
    /\ Len(s) >= Len(p)
    /\ SubSeq(s, 1, Len(p)) = p

\* strings.TrimPrefix
TrimPrefix(s, p) ==
    IF HasPrefix(s, p) THEN SubSeq(s, Len(p) + 1, Len(s)) ELSE s

\* strings.ToLower on the bytes of the model: ASCII upper case letters map to
\* lower case, every other byte is kept (no name of the model holds an upper
\* case letter outside ASCII).
ToLower(s) ==
    [k \in 1..Len(s) |-> IF s[k] \in 65..90 THEN s[k] + 32 ELSE s[k]]

\* Go's string(b) for a byte b: the UTF-8 encoding of the code point b, one
\* byte below 128 and two bytes from 128 on.
ByteToString(b) ==
    IF b < 128 THEN <<b>> ELSE <<192 + (b \div 64), 128 + (b % 64)>>

\* The number of characters of a UTF-8 string, which is what a terminal
\* shows: every byte except the continuation bytes 128..191 starts one.
RuneCount(s) ==
    Cardinality({k \in 1..Len(s) : s[k] \notin 128..191})

\* The characters of a UTF-8 string, each as its own byte string.
RECURSIVE Runes(_)
Runes(s) ==
    IF s = <<>> THEN <<>>
    ELSE LET n == IF \E k \in 2..Len(s) : s[k] \notin 128..191
                  THEN (CHOOSE k \in 2..Len(s) :
                           /\ s[k] \notin 128..191
                           /\ \A j \in 2..(k - 1) : s[j] \in 128..191) - 1
                  ELSE Len(s)
         IN <<SubSeq(s, 1, n)>> \o Runes(SubSeq(s, n + 1, Len(s)))

\* Byte-wise (ordinal) order of strings, as Go's < on strings.
RECURSIVE StringLess(_, _)
StringLess(a, b) ==
    IF a = <<>> THEN b # <<>>
    ELSE IF b = <<>> THEN FALSE
    ELSE IF a[1] # b[1] THEN a[1] < b[1]
    ELSE StringLess(Tail(a), Tail(b))

RECURSIVE Insert(_, _)
Insert(sorted, x) ==
    IF sorted = <<>> THEN <<x>>
    ELSE IF StringLess(x, sorted[1]) THEN <<x>> \o sorted
    ELSE <<sorted[1]>> \o Insert(Tail(sorted), x)

RECURSIVE SortedOf(_)
SortedOf(s) ==
    IF s = <<>> THEN <<>>
    ELSE Insert(SortedOf(SubSeq(s, 1, Len(s) - 1)), s[Len(s)])

\* a sort that forgets to sort
UnsortedStrings(s) == s

\* sort.Strings
SortStrings(s) == SortedOf(s)

\* The sequences over S of length at most n.
SeqUpTo(S, n) == UNION {[1..k -> S] : k \in 0..n}

RECURSIVE SetToSeq(_)
SetToSeq(S) ==
    IF S = {} THEN <<>>
    ELSE LET x == CHOOSE y \in S : TRUE IN <<x>> \o SetToSeq(S \ {x})

----------------------------------------------------------------------------
\* Flag Normalizer: expandCombinedFlags (part_000, lines 166-181).

\* lines 176-178: one "-x" token for each byte of a from index i (0-based) on
RECURSIVE SplitFrom(_, _)
SplitFrom(a, i) ==
    IF i >= Len(a) THEN <<>>
    ELSE <<(<<45>> \o ByteToString(a[i + 1]))>> \o SplitFrom(a, i + 1)

\* line 171: the tokens kept as they are
PassesThrough(a) ==
    \/ ~HasPrefix(a, <<45>>)
    \/ HasPrefix(a, <<45, 45>>)
    \/ Len(a) = 2

RECURSIVE ExpandFrom(_, _)
ExpandFrom(args, k) ==
    IF k > Len(args) THEN <<>>
    ELSE (IF PassesThrough(args[k]) THEN <<args[k]>> ELSE SplitFrom(args[k], 1))
         \o ExpandFrom(args, k + 1)

expandCombinedFlags(args) == ExpandFrom(args, 1)

\* The tokens of the model's command lines:
\*   -l  -a  -la  -x  -h  -  --  d  -a-b  -l-  --a=0  and  -e-acute
TokenPool ==
    { <<45, 108>>, <<45, 97>>, <<45, 108, 97>>, <<45, 120>>, <<45, 104>>,
      <<45>>, <<45, 45>>, <<100>>, <<45, 97, 45, 98>>, <<45, 108, 45>>,
      <<45, 45, 97, 61, 48>>, <<45, 195, 169>> }

ArgLists == SeqUpTo(TokenPool, MaxArgs)

\* The normalizer applied to an argument list, then to its own result.
NormInit ==
    /\ nPc = "start"
    /\ nArgs \in ArgLists
    /\ nOnce = <<>>
    /\ nTwice = <<>>

NormalizeOnce ==
    /\ nPc = "start"
    /\ nOnce' = expandCombinedFlags(nArgs)
    /\ nPc' = "once"
    /\ UNCHANGED <<nArgs, nTwice>>
    /\ UNCHANGED <<wlsVars, wlaVars, wfVars>>

NormalizeTwice ==
    /\ nPc = "once"
    /\ nTwice' = expandCombinedFlags(nOnce)
    /\ nPc' = "twice"
    /\ UNCHANGED <<nArgs, nOnce>>
    /\ UNCHANGED <<wlsVars, wlaVars, wfVars>>

NormIdle ==
    /\ nPc = "idle"
    /\ nArgs = <<>>
    /\ nOnce = <<>>
    /\ nTwice = <<>>

----------------------------------------------------------------------------
\* wls: command line (part_000, lines 39-54).

\* strconv.ParseBool, which the flag package applies to "-flag=value"
TrueStrings ==
    { <<49>>, <<116>>, <<84>>, <<116, 114, 117, 101>>, <<84, 82, 85, 69>>,
      <<84, 114, 117, 101>> }
FalseStrings ==
    { <<48>>, <<102>>, <<70>>, <<102, 97, 108, 115, 101>>,
      <<70, 65, 76, 83, 69>>, <<70, 97, 108, 115, 101>> }

\* index of the first "=" of name after its first byte, 0 when there is none
EqualsAt(name) ==
    IF \E k \in 2..Len(name) : name[k] = 61
    THEN CHOOSE k \in 2..Len(name) :
             /\ name[k] = 61
             /\ \A j \in 2..(k - 1) : name[j] # 61
    ELSE 0

\* flag.Parse with the two boolean flags "l" and "a" of lines 40-41: the
\* flags are read from the front of the list until the first argument that
\* is no flag, or "--".  An undefined flag, a malformed one or a value that
\* is no boolean is an error; an undefined -h or -help asks for the usage.
RECURSIVE ParseFrom(_, _, _)
ParseFrom(args, l, a) ==
    IF args = <<>> THEN [err |-> "none", long |-> l, all |-> a, rest |-> <<>>]
    ELSE
    LET s == args[1] IN
    IF Len(s) < 2 \/ s[1] # 45
    THEN [err |-> "none", long |-> l, all |-> a, rest |-> args]
    ELSE IF s = <<45, 45>>
    THEN [err |-> "none", long |-> l, all |-> a, rest |-> Tail(args)]
    ELSE
    LET full == IF s[2] = 45 THEN SubSeq(s, 3, Len(s)) ELSE Tail(s)
        eq == EqualsAt(full)
        name == IF eq = 0 THEN full ELSE SubSeq(full, 1, eq - 1)
        value == IF eq = 0 THEN <<>> ELSE SubSeq(full, eq + 1, Len(full))
        bad == [err |-> "error", long |-> l, all |-> a, rest |-> Tail(args)]
        set == IF eq = 0 THEN TRUE ELSE value \in TrueStrings
    IN  IF full = <<>> \/ full[1] = 45 \/ full[1] = 61 THEN bad
        ELSE IF name \notin {<<108>>, <<97>>}
        THEN IF name \in {<<104>>, <<104, 101, 108, 112>>}
             THEN [bad EXCEPT !.err = "help"]
             ELSE bad
        ELSE IF eq # 0 /\ value \notin (TrueStrings \cup FalseStrings) THEN bad
        ELSE IF name = <<108>> THEN ParseFrom(Tail(args), set, a)
        ELSE ParseFrom(Tail(args), l, set)

\* flag.Parse (line 46)
FlagParse(args) == ParseFrom(args, FALSE, FALSE)

\* the exit code of flag.Parse under flag.ExitOnError
ParseExitCode(err) == IF err = "help" THEN 0 ELSE 2

----------------------------------------------------------------------------
\* wls: the directory (part_000, lines 56-98 and 197-208).

\* The directory entries of the model.  statOK: os.Stat of the entry succeeds
\* (it fails for a dangling link); isDir: the entry is a directory; hidden:
\* it carries the hidden attribute; attrErr: reading its attributes fails.
Entry(n, d, h, ae, ok) ==
    [name |-> n, isDir |-> d, hidden |-> h, attrErr |-> ae, statOK |-> ok]

\*   .secret  A.EXE  a.JPG  a.jpg  d.zip/  h (hidden)  e-acute  u-umlaut
\*   lnk.mp3 (a dangling link: stat fails, and so does the attribute query)
\*   . (a directory read that returns the directory itself)
EntryPool ==
    { Entry(<<46, 115, 101, 99, 114, 101, 116>>, FALSE, FALSE, FALSE, TRUE),
      Entry(<<65, 46, 69, 88, 69>>, FALSE, FALSE, FALSE, TRUE),
      Entry(<<97, 46, 74, 80, 71>>, FALSE, FALSE, FALSE, TRUE),
      Entry(<<97, 46, 106, 112, 103>>, FALSE, FALSE, FALSE, TRUE),
      Entry(<<100, 46, 122, 105, 112>>, TRUE, FALSE, FALSE, TRUE),
      Entry(<<104>>, FALSE, TRUE, FALSE, TRUE),
      Entry(<<195, 169>>, FALSE, FALSE, FALSE, TRUE),
      Entry(<<195, 188>>, FALSE, FALSE, FALSE, TRUE),
      Entry(<<108, 110, 107, 46, 109, 112, 51>>, FALSE, TRUE, TRUE, FALSE),
      Entry(<<46>>, TRUE, FALSE, FALSE, TRUE) }

EntryNamed(n) == CHOOSE e \in EntryPool : e.name = n

\* What os.ReadDir can return: entries of distinct names, sorted by name.
Listings ==
    { [k \in 1..Len(ns) |-> EntryNamed(ns[k])] :
        ns \in { SortedOf(SetToSeq(S)) :
                   S \in { T \in SUBSET {e.name : e \in EntryPool} :
                             Cardinality(T) <= MaxEntries } } }

\* isHidden (lines 198-208): a failed attribute query counts as not hidden
isHidden(e) == IF e.attrErr THEN FALSE ELSE e.hidden

\* lines 62-76: the names kept, in the order read
RECURSIVE Visible(_, _, _)
Visible(es, k, all) ==
    IF k > Len(es) THEN <<>>
    ELSE (IF ~all /\ (HasPrefix(es[k].name, <<46>>) \/ isHidden(es[k]))
          THEN <<>> ELSE <<es[k].name>>)
         \o Visible(es, k + 1, all)

\* the contents of a sequence
Range(s) == {s[k] : k \in 1..Len(s)}

\* lines 79-96: "." and ".." appended under -a unless already there
WithDots(ns, all) ==
    IF ~all THEN ns
    ELSE LET one == IF <<46>> \in Range(ns) THEN ns ELSE Append(ns, <<46>>)
         IN IF <<46, 46>> \in Range(ns) THEN one ELSE Append(one, <<46, 46>>)

\* lines 62-98: the Entry Collector
CollectNames(es, all) == SortStrings(WithDots(Visible(es, 1, all), all))

\* os.Stat of dir/name: of an entry that was read, or of "." and "..", which
\* are directories
StatOf(es, n) ==
    IF \E k \in 1..Len(es) : es[k].name = n
    THEN LET e == es[CHOOSE k \in 1..Len(es) : es[k].name = n]
         IN [ok |-> e.statOK, isDir |-> e.isDir]
    ELSE [ok |-> TRUE, isDir |-> TRUE]

----------------------------------------------------------------------------
\* wls: the Classifier (part_000, lines 218-312).

\* filepath.Ext: the suffix from the last "." of the last path element on
Ext(path) ==
    LET dots == { k \in 1..Len(path) :
                    /\ path[k] = 46
                    /\ \A j \in k..Len(path) : path[j] \notin {47, 92} }
    IN IF dots = {} THEN <<>>
       ELSE SubSeq(path, CHOOSE k \in dots : \A j \in dots : j <= k, Len(path))

\* exe bat cmd com ps1
isExecutable(ext) ==
    ext \in { <<101, 120, 101>>, <<98, 97, 116>>, <<99, 109, 100>>,
              <<99, 111, 109>>, <<112, 115, 49>> }

\* zip tar gz tgz 7z rar
isArchive(ext) ==
    ext \in { <<122, 105, 112>>, <<116, 97, 114>>, <<103, 122>>,
              <<116, 103, 122>>, <<55, 122>>, <<114, 97, 114>> }

\* jpg jpeg png gif bmp webp mp4 mkv mov avi
isImageOrVideo(ext) ==
    ext \in { <<106, 112, 103>>, <<106, 112, 101, 103>>, <<112, 110, 103>>,
              <<103, 105, 102>>, <<98, 109, 112>>, <<119, 101, 98, 112>>,
              <<109, 112, 52>>, <<109, 107, 118>>, <<109, 111, 118>>,
              <<97, 118, 105>> }

\* mp3 wav flac aac ogg
isAudio(ext) ==
    ext \in { <<109, 112, 51>>, <<119, 97, 118>>, <<102, 108, 97, 99>>,
              <<97, 97, 99>>, <<111, 103, 103>> }

\* colorWrap(code, s): s between the escape sequences ESC[<code>m and ESC[0m.
\* A decorated name is kept as the pair of its colour code and its text; the
\* code 0 stands for a name printed as it is.
colorWrap(code, s) == [code |-> code, text |-> s]
blue(s) == colorWrap(34, s)
green(s) == colorWrap(32, s)
red(s) == colorWrap(31, s)
magenta(s) == colorWrap(35, s)
cyan(s) == colorWrap(36, s)
plain(s) == [code |-> 0, text |-> s]

\* a classifier that forgets to lower the case of the extension
ExtAsWritten(name) == TrimPrefix(Ext(name), <<46>>)

\* the extension colorName looks up (line 225)
LowerExt(name) == ToLower(TrimPrefix(Ext(name), <<46>>))

\* colorName (lines 218-239); fi is the result of os.Stat, fi.ok FALSE for nil
colorName(name, fi) ==
    IF ~fi.ok THEN plain(name)
    ELSE IF fi.isDir THEN blue(name)
    ELSE LET ext == LowerExt(name)
         IN IF isExecutable(ext) THEN green(name)
            ELSE IF isArchive(ext) THEN red(name)
            ELSE IF isImageOrVideo(ext) THEN magenta(name)
            ELSE IF isAudio(ext) THEN cyan(name)
            ELSE plain(name)

----------------------------------------------------------------------------
\* wls: the Layout Engine (part_000, lines 100-163).

\* the width assumed when the console reports none (line 101)
DefaultWidth == 80

\* a printed name: its text and colour code, the spaces printed after it and
\* the grid column it was printed for
Cell(dec, pad, col) ==
    [name |-> dec.text, code |-> dec.code, pad |-> pad, col |-> col]

\* lines 107-121: long mode, from the k-th name on; an entry whose stat
\* fails gets a line on standard error and none on standard output
RECURSIVE LongFrom(_, _, _)
LongFrom(ns, es, k) ==
    IF k > Len(ns) THEN [out |-> <<>>, err |-> <<>>]
    ELSE LET fi == StatOf(es, ns[k])
             more == LongFrom(ns, es, k + 1)
         IN IF ~fi.ok
            THEN [more EXCEPT !.err = <<"error:">> \o @]
            ELSE [more EXCEPT
                    !.out = <<(<<Cell(colorName(ns[k], fi), 0, 0)>>)>> \o @]

\* lines 124-129
RECURSIVE MaxLenFrom(_, _)
MaxLenFrom(ns, k) ==
    IF k > Len(ns) THEN 0
    ELSE LET m == MaxLenFrom(ns, k + 1)
         IN IF Len(ns[k]) > m THEN Len(ns[k]) ELSE m

MaxLen(ns) == MaxLenFrom(ns, 1)

\* line 134
ColWidth(ns) == MaxLen(ns) + 2

\* a column count rounded up instead of down
ColsRoundedUp(w, cw) == (w + cw - 1) \div cw

\* lines 135-138
Cols(w, cw) == IF w \div cw < 1 THEN 1 ELSE w \div cw

\* a row count rounded down instead of up
RowsRoundedDown(n, c) == IF n \div c < 1 THEN 1 ELSE n \div c

\* line 139
Rows(n, c) == (n + c - 1) \div c

\* lines 151-160: the spaces printed after the name of row r, column c
Padding(n, cw, nc, nr, r, c, len) ==
    IF c = nc - 1 \/ c * nr + r + nr >= n THEN 0
    ELSE IF cw - len < 0 THEN 0 ELSE cw - len

\* lines 142-161: row r of the grid, from column c on
RECURSIVE GridRowFrom(_, _, _, _, _, _, _)
GridRowFrom(ns, es, cw, nc, nr, r, c) ==
    IF c >= nc THEN <<>>
    ELSE LET idx == c * nr + r
             more == GridRowFrom(ns, es, cw, nc, nr, r, c + 1)
         IN IF idx >= Len(ns) THEN more
            ELSE LET name == ns[idx + 1]
                     fi == StatOf(es, name)
                 IN <<Cell(colorName(name, fi),
                           Padding(Len(ns), cw, nc, nr, r, c, Len(name)), c)>>
                    \o more

\* lines 141-163: the grid, one line for each row
Grid(ns, es, cw, nc, nr) ==
    [k \in 1..nr |-> GridRowFrom(ns, es, cw, nc, nr, k - 1, 0)]

----------------------------------------------------------------------------
\* wls: main (part_000, lines 39-164).

WlsInit ==
    /\ pc = "start"
    /\ osArgs \in ArgLists
    /\ longFlag = FALSE
    /\ allFlag = FALSE
    /\ dir = <<>>
    /\ parseErr = "none"
    /\ readErr = FALSE
    /\ entries = <<>>
    /\ names = <<>>
    /\ width = 0
    /\ colWidth = 0
    /\ cols = 0
    /\ rows = 0
    /\ out = <<>>
    /\ errOut = <<>>
    /\ exitCode = -1

WlsIdle ==
    /\ pc = "idle"
    /\ osArgs = <<>>
    /\ longFlag = FALSE
    /\ allFlag = FALSE
    /\ dir = <<>>
    /\ parseErr = "none"
    /\ readErr = FALSE
    /\ entries = <<>>
    /\ names = <<>>
    /\ width = 0
    /\ colWidth = 0
    /\ cols = 0
    /\ rows = 0
    /\ out = <<>>
    /\ errOut = <<>>
    /\ exitCode = -1

\* lines 43-45
Expand ==
    /\ pc = "start"
    /\ osArgs' = IF Len(osArgs) > 0 THEN expandCombinedFlags(osArgs) ELSE osArgs
    /\ pc' = "expanded"
    /\ UNCHANGED <<longFlag, allFlag, dir, parseErr, readErr, entries, names,
                   width, colWidth, cols, rows, out, errOut, exitCode>>
    /\ UNCHANGED <<normVars, wlaVars, wfVars>>

\* lines 46-54: flag.Parse, which ends the process when it fails, and the
\* choice of the directory.  (enableANSI, line 49, changes only the console
\* mode.)  Only the first remaining argument is ever read.
Parse ==
    /\ pc = "expanded"
    /\ LET p == FlagParse(osArgs)
       IN /\ parseErr' = p.err
          /\ IF p.err # "none"
             THEN /\ pc' = "exit"
                  /\ exitCode' = ParseExitCode(p.err)
                  /\ errOut' = Append(errOut, "usage")
                  /\ UNCHANGED <<longFlag, allFlag, dir>>
             ELSE /\ pc' = "parsed"
                  /\ longFlag' = p.long
                  /\ allFlag' = p.all
                  /\ dir' = IF Len(p.rest) > 0 THEN p.rest[1] ELSE <<46>>
                  /\ UNCHANGED <<exitCode, errOut>>
    /\ osArgs' = <<>>
    /\ UNCHANGED <<readErr, entries, names, width, colWidth, cols, rows, out>>
    /\ UNCHANGED <<normVars, wlaVars, wfVars>>

\* a failed read that is reported but ends the process with code 0
ReadDirFailsExitZero ==
    /\ pc = "parsed"
    /\ readErr' = TRUE
    /\ errOut' = Append(errOut, "error:")
    /\ exitCode' = 0
    /\ pc' = "exit"
    /\ UNCHANGED <<osArgs, longFlag, allFlag, dir, parseErr, entries, names,
                   width, colWidth, cols, rows, out>>
    /\ UNCHANGED <<normVars, wlaVars, wfVars>>

\* lines 56-60, the read failing
ReadDirFails ==
    /\ pc = "parsed"
    /\ readErr' = TRUE
    /\ errOut' = Append(errOut, "error:")
    /\ exitCode' = 1
    /\ pc' = "exit"
    /\ UNCHANGED <<osArgs, longFlag, allFlag, dir, parseErr, entries, names,
                   width, colWidth, cols, rows, out>>
    /\ UNCHANGED <<normVars, wlaVars, wfVars>>

\* line 56, the read succeeding
ReadDir ==
    /\ pc = "parsed"
    /\ \E l \in Listings : entries' = l
    /\ pc' = "read"
    /\ UNCHANGED <<osArgs, longFlag, allFlag, dir, parseErr, readErr, names,
                   width, colWidth, cols, rows, out, errOut, exitCode>>
    /\ UNCHANGED <<normVars, wlaVars, wfVars>>

\* lines 62-98
Collect ==
    /\ pc = "read"
    /\ names' = CollectNames(entries, allFlag)
    /\ pc' = "collected"
    /\ UNCHANGED <<osArgs, longFlag, allFlag, dir, parseErr, readErr, entries,
                   width, colWidth, cols, rows, out, errOut, exitCode>>
    /\ UNCHANGED <<normVars, wlaVars, wfVars>>

\* lines 101-104: w = 0 stands for a console that reports no usable width
GetSize ==
    /\ pc = "collected"
    /\ \E w \in 0..MaxWidth : width' = IF w > 0 THEN w ELSE DefaultWidth
    /\ pc' = "sized"
    /\ UNCHANGED <<osArgs, longFlag, allFlag, dir, parseErr, readErr, entries,
                   names, colWidth, cols, rows, out, errOut, exitCode>>
    /\ UNCHANGED <<normVars, wlaVars, wfVars>>

\* lines 107-121
PrintLong ==
    /\ pc = "sized"
    /\ longFlag
    /\ LET res == LongFrom(names, entries, 1)
       IN /\ out' = out \o res.out
          /\ errOut' = errOut \o res.err
    /\ exitCode' = 0
    /\ pc' = "exit"
    /\ UNCHANGED <<osArgs, longFlag, allFlag, dir, parseErr, readErr, entries,
                   names, width, colWidth, cols, rows>>
    /\ UNCHANGED <<normVars, wlaVars, wfVars>>

\* lines 124-139
Layout ==
    /\ pc = "sized"
    /\ ~longFlag
    /\ IF MaxLen(names) = 0
       THEN /\ exitCode' = 0
            /\ pc' = "exit"
            /\ UNCHANGED <<colWidth, cols, rows>>
       ELSE /\ colWidth' = ColWidth(names)
            /\ cols' = Cols(width, ColWidth(names))
            /\ rows' = Rows(Len(names), Cols(width, ColWidth(names)))
            /\ pc' = "layout"
            /\ UNCHANGED exitCode
    /\ UNCHANGED <<osArgs, longFlag, allFlag, dir, parseErr, readErr, entries,
                   names, width, out, errOut>>
    /\ UNCHANGED <<normVars, wlaVars, wfVars>>

\* lines 141-164
PrintGrid ==
    /\ pc = "layout"
    /\ out' = out \o Grid(names, entries, colWidth, cols, rows)
    /\ exitCode' = 0
    /\ pc' = "exit"
    /\ UNCHANGED <<osArgs, longFlag, allFlag, dir, parseErr, readErr, entries,
                   names, width, colWidth, cols, rows, errOut>>
    /\ UNCHANGED <<normVars, wlaVars, wfVars>>

----------------------------------------------------------------------------
\* wla (part_001, lines 17-51).

\* "wls.exe -l -a" (line 23)
CmdPrefix == <<119, 108, 115, 46, 101, 120, 101, 32, 45, 108, 32, 45, 97>>

\* lines 24-30: a space and the argument, between quotes when it holds a space
RECURSIVE AppendArgs(_, _, _)
AppendArgs(c, args, k) ==
    IF k > Len(args) THEN c
    ELSE LET needq == 32 \in Range(args[k])
             quoted == IF needq THEN <<34>> \o args[k] \o <<34>> ELSE args[k]
         IN AppendArgs(c \o <<32>> \o quoted, args, k + 1)

\* lines 23-30
BuildCmd(args) == AppendArgs(CmdPrefix, args, 1)

\* A 32-bit exit code, kept as its two 16-bit halves.
Dword(hi, lo) == [hi |-> hi, lo |-> lo]

\* no exit code yet
NoExit == Dword(-1, -1)

\* the int a DWORD becomes under (int), and the exit code the process ends
\* with when main returns that int
ToInt32(d) ==
    IF d.hi >= 32768 THEN (d.hi - 65536) * 65536 + d.lo
    ELSE d.hi * 65536 + d.lo
ToUint32(i) == Dword((i \div 65536) % 65536, i % 65536)

\* an exit code cut to its low byte
ForwardedLowByte(code) == Dword(0, code.lo % 256)

\* line 50: return (int) exitCode
ForwardedExit(code) == ToUint32(ToInt32(code))

\* the arguments of the model:  d  "a b"  the empty argument  x"y
WlaArgPool == { <<100>>, <<97, 32, 98>>, <<>>, <<120, 34, 121>> }

\* the codes the child can end with: 0, 1, 2, 0xC0000005 and 0xFFFFFFFF
ChildExitCodes ==
    { Dword(0, 0), Dword(0, 1), Dword(0, 2), Dword(49152, 5),
      Dword(65535, 65535) }

WlaInit ==
    /\ wlaPc = "start"
    /\ argv \in SeqUpTo(WlaArgPool, MaxWlaArgs)
    /\ cmd = <<>>
    /\ spawned = "no"
    /\ waited = FALSE
    /\ childState = "none"
    /\ childExit = Dword(0, 0)
    /\ wlaExit = NoExit

\* lines 18-30
WlaBuild ==
    /\ wlaPc = "start"
    /\ cmd' = BuildCmd(argv)
    /\ wlaPc' = "built"
    /\ UNCHANGED <<argv, spawned, waited, childState, childExit, wlaExit>>
    /\ UNCHANGED <<wlsVars, normVars, wfVars>>

\* lines 20-21: malloc fails
WlaNoMemory ==
    /\ wlaPc = "start"
    /\ wlaExit' = Dword(0, 2)
    /\ wlaPc' = "exit"
    /\ UNCHANGED <<argv, cmd, spawned, waited, childState, childExit>>
    /\ UNCHANGED <<wlsVars, normVars, wfVars>>

\* line 38, CreateProcessA succeeding
WlaSpawn ==
    /\ wlaPc = "built"
    /\ spawned' = "ok"
    /\ childState' = "running"
    /\ wlaPc' = "waiting"
    /\ UNCHANGED <<argv, cmd, waited, childExit, wlaExit>>
    /\ UNCHANGED <<wlsVars, normVars, wfVars>>

\* lines 38-42, CreateProcessA failing
WlaSpawnFails ==
    /\ wlaPc = "built"
    /\ spawned' = "failed"
    /\ wlaExit' = Dword(0, 1)
    /\ wlaPc' = "exit"
    /\ UNCHANGED <<argv, cmd, waited, childState, childExit>>
    /\ UNCHANGED <<wlsVars, normVars, wfVars>>

\* the child process ends
ChildExits ==
    /\ childState = "running"
    /\ \E c \in ChildExitCodes : childExit' = c
    /\ childState' = "terminated"
    /\ UNCHANGED <<wlaPc, argv, cmd, spawned, waited, wlaExit>>
    /\ UNCHANGED <<wlsVars, normVars, wfVars>>

\* lines 44-50: WaitForSingleObject returns once the child has ended
WlaWait ==
    /\ wlaPc = "waiting"
    /\ childState = "terminated"
    /\ waited' = TRUE
    /\ wlaExit' = ForwardedExit(childExit)
    /\ wlaPc' = "exit"
    /\ UNCHANGED <<argv, cmd, spawned, childState, childExit>>
    /\ UNCHANGED <<wlsVars, normVars, wfVars>>

----------------------------------------------------------------------------
\* wfile (wfile.go).

\* the table common (lines 13-29): txt md jpg jpeg png gif exe dll zip tar gz
\* pdf docx xlsx pptx
common ==
    { <<(<<116, 120, 116>>), "Text File">>,
      <<(<<109, 100>>), "Markdown">>,
      <<(<<106, 112, 103>>), "JPEG Image">>,
      <<(<<106, 112, 101, 103>>), "JPEG Image">>,
      <<(<<112, 110, 103>>), "PNG Image">>,
      <<(<<103, 105, 102>>), "GIF Image">>,
      <<(<<101, 120, 101>>), "Windows Executable">>,
      <<(<<100, 108, 108>>), "Windows DLL">>,
      <<(<<122, 105, 112>>), "ZIP Archive">>,
      <<(<<116, 97, 114>>), "TAR Archive">>,
      <<(<<103, 122>>), "Gzip Archive">>,
      <<(<<112, 100, 102>>), "PDF Document">>,
      <<(<<100, 111, 99, 120>>), "Word Document">>,
      <<(<<120, 108, 115, 120>>), "Excel Workbook">>,
      <<(<<112, 112, 116, 120>>), "PowerPoint Presentation">> }

InCommon(ext) == \E p \in common : p[1] = ext
CommonType(ext) == (CHOOSE p \in common : p[1] = ext)[2]

\* mime.TypeByExtension on the system of the model: it knows .css and .txt
TypeByExtension(ext) ==
    IF ext = <<99, 115, 115>> THEN "text/css; charset=utf-8"
    ELSE IF ext = <<116, 120, 116>> THEN "text/plain; charset=utf-8"
    ELSE ""

\* what http.DetectContentType can answer for the first 512 bytes of a file;
\* application/octet-stream is its answer when it recognises nothing
SniffResults == {"text/plain; charset=utf-8", "application/octet-stream"}

\* the paths of the model:  a.TXT  b.css  c.xyz  d
PathPool ==
    { <<97, 46, 84, 88, 84>>, <<98, 46, 99, 115, 115>>,
      <<99, 46, 120, 121, 122>>, <<100>> }

\* a path with what the file system holds there
Files ==
    [path : PathPool, statOK : {FALSE}, isDir : {FALSE}, openOK : {FALSE},
     sniff : {"application/octet-stream"}]
    \cup [path : PathPool, statOK : {TRUE}, isDir : {TRUE}, openOK : {FALSE},
          sniff : {"application/octet-stream"}]
    \cup [path : PathPool, statOK : {TRUE}, isDir : {FALSE}, openOK : {FALSE},
          sniff : {"application/octet-stream"}]
    \cup [path : PathPool, statOK : {TRUE}, isDir : {FALSE}, openOK : {TRUE},
          sniff : SniffResults]

Detected(e, t, err) == [ext |-> e, typ |-> t, err |-> err]

\* a detection that asks the MIME database before the table
detectTypeMimeFirst(f) ==
    IF ~f.statOK THEN Detected(<<>>, "", TRUE)
    ELSE IF f.isDir THEN Detected(<<>>, "directory", FALSE)
    ELSE
    LET ext == TrimPrefix(ToLower(Ext(f.path)), <<46>>) IN
    IF ext # <<>> /\ TypeByExtension(ext) # ""
    THEN Detected(ext, TypeByExtension(ext), FALSE)
    ELSE IF ext # <<>> /\ InCommon(ext)
    THEN Detected(ext, CommonType(ext), FALSE)
    ELSE IF ~f.openOK THEN Detected(ext, "", TRUE)
    ELSE IF f.sniff = "application/octet-stream" /\ ext = <<>>
    THEN Detected(ext, "unknown", FALSE)
    ELSE Detected(ext, f.sniff, FALSE)

\* detectType (lines 38-76)
detectType(f) ==
    IF ~f.statOK THEN Detected(<<>>, "", TRUE)
    ELSE IF f.isDir THEN Detected(<<>>, "directory", FALSE)
    ELSE
    LET ext == TrimPrefix(ToLower(Ext(f.path)), <<46>>) IN
    IF ext # <<>> /\ InCommon(ext)
    THEN Detected(ext, CommonType(ext), FALSE)
    ELSE IF ext # <<>> /\ TypeByExtension(ext) # ""
    THEN Detected(ext, TypeByExtension(ext), FALSE)
    ELSE IF ~f.openOK THEN Detected(ext, "", TRUE)
    ELSE IF f.sniff = "application/octet-stream" /\ ext = <<>>
    THEN Detected(ext, "unknown", FALSE)
    ELSE Detected(ext, f.sniff, FALSE)

\* "(none)"
NoneText == <<40, 110, 111, 110, 101, 41>>

\* lines 96-104: the line printed for one argument
LineFor(f) ==
    LET d == detectType(f) IN
    IF d.err
    THEN [stream |-> "stderr", path |-> f.path, ext |-> <<>>, typ |-> "Error"]
    ELSE [stream |-> "stdout", path |-> f.path,
          ext |-> IF d.ext = <<>> THEN NoneText ELSE d.ext, typ |-> d.typ]

WfInit ==
    /\ wfPc = "start"
    /\ wfArgs \in SeqUpTo(Files, MaxPaths)
    /\ wfI = 0
    /\ wfOut = <<>>
    /\ wfExit = -1

\* lines 89-92
WfUsage ==
    /\ wfPc = "start"
    /\ Len(wfArgs) = 0
    /\ wfOut' = <<[stream |-> "stderr", path |-> <<>>, ext |-> <<>>,
                   typ |-> "Usage"]>>
    /\ wfExit' = 2
    /\ wfPc' = "exit"
    /\ UNCHANGED <<wfArgs, wfI>>
    /\ UNCHANGED <<wlsVars, normVars, wlaVars>>

\* lines 94-105: one turn of the loop
WfNextPath ==
    /\ wfPc \in {"start", "loop"}
    /\ wfI < Len(wfArgs)
    /\ wfOut' = Append(wfOut, LineFor(wfArgs[wfI + 1]))
    /\ wfI' = wfI + 1
    /\ wfPc' = "loop"
    /\ UNCHANGED <<wfArgs, wfExit>>
    /\ UNCHANGED <<wlsVars, normVars, wlaVars>>

\* line 106: the loop is over
WfDone ==
    /\ wfPc = "loop"
    /\ wfI = Len(wfArgs)
    /\ wfExit' = 0
    /\ wfPc' = "exit"
    /\ UNCHANGED <<wfArgs, wfI, wfOut>>
    /\ UNCHANGED <<wlsVars, normVars, wlaVars>>

----------------------------------------------------------------------------
\* wla and wfile at rest.

WlaIdle ==
    /\ wlaPc = "idle"
    /\ argv = <<>>
    /\ cmd = <<>>
    /\ spawned = "no"
    /\ waited = FALSE
    /\ childState = "none"
    /\ childExit = Dword(0, 0)
    /\ wlaExit = NoExit

WfIdle ==
    /\ wfPc = "idle"
    /\ wfArgs = <<>>
    /\ wfI = 0
    /\ wfOut = <<>>
    /\ wfExit = -1

----------------------------------------------------------------------------
\* The specifications.

Init == WlsInit /\ NormIdle /\ WlaIdle /\ WfIdle
Next ==
    \/ Expand
    \/ Parse
    \/ ReadDirFails
    \/ ReadDir
    \/ Collect
    \/ GetSize
    \/ PrintLong
    \/ Layout
    \/ PrintGrid
Spec == Init /\ [][Next]_vars

InitNorm == NormInit /\ WlsIdle /\ WlaIdle /\ WfIdle
NextNorm ==
    \/ NormalizeOnce
    \/ NormalizeTwice
SpecNorm == InitNorm /\ [][NextNorm]_vars

InitWla == WlaInit /\ WlsIdle /\ NormIdle /\ WfIdle
NextWla ==
    \/ WlaBuild
    \/ WlaNoMemory
    \/ WlaSpawn
    \/ WlaSpawnFails
    \/ ChildExits
    \/ WlaWait
SpecWla == InitWla /\ [][NextWla]_vars

InitWfile == WfInit /\ WlsIdle /\ NormIdle /\ WlaIdle
NextWfile ==
    \/ WfUsage
    \/ WfNextPath
    \/ WfDone
SpecWfile == InitWfile /\ [][NextWfile]_vars

----------------------------------------------------------------------------
\* Properties of wls.

\* the names have been collected (line 98 is passed)
Collected ==
    \/ pc \in {"collected", "sized", "layout"}
    \/ pc = "exit" /\ parseErr = "none" /\ ~readErr

\* wls has printed the directory in grid mode
GridDone ==
    /\ pc = "exit"
    /\ parseErr = "none"
    /\ ~readErr
    /\ ~longFlag
    /\ names # <<>>

\* the entries the hidden rule lets through: all of them under -a, otherwise
\* those whose name does not begin with "." and that are not seen to carry the
\* hidden attribute
ShownEntries ==
    { e \in Range(entries) :
        \/ allFlag
        \/ /\ e.name[1] # 46
           /\ ~(e.hidden /\ ~e.attrErr) }

ExpectedNames ==
    {e.name : e \in ShownEntries}
        \cup (IF allFlag THEN {<<46>>, <<46, 46>>} ELSE {})

CellsOf(idx) ==
    { rk \in { <<r, k>> : r \in 1..Len(out), k \in 1..Len(names) } :
        /\ rk[2] <= Len(out[rk[1]])
        /\ out[rk[1]][rk[2]].name = names[idx + 1] }

\* C2: grid mode, for a non-empty list of n names and every width:
\* colWidth = maxLen + 2, cols = max(1, floor(width / colWidth)) >= 1 and
\* rows = ceil(n / cols); every name is printed in exactly one cell; the cell
\* of row r and column c holds the name of sorted index c*rows + r; read
\* column by column, the grid gives back the sorted list.
C2_GridHoldsEveryNameOnce ==
    GridDone =>
        LET n == Len(names) IN
        /\ colWidth = MaxLen(names) + 2
        /\ cols >= 1
        /\ cols * colWidth <= width \/ cols = 1
        /\ (cols + 1) * colWidth > width
        /\ rows * cols >= n
        /\ (rows - 1) * cols < n
        /\ Len(out) = rows
        /\ \A idx \in 0..(n - 1) :
             /\ Cardinality(CellsOf(idx)) = 1
             /\ \A rk \in CellsOf(idx) :
                  /\ rk[1] - 1 = idx % rows
                  /\ out[rk[1]][rk[2]].col = idx \div rows
        /\ \A r \in 1..Len(out) : \A k \in 1..Len(out[r]) :
             /\ out[r][k].col \in 0..(cols - 1)
             /\ out[r][k].col * rows + (r - 1) < n
             /\ out[r][k].name = names[out[r][k].col * rows + r]
             /\ k > 1 => out[r][k - 1].col < out[r][k].col

\* five names in three columns and two rows, the second row one name short
C2_Witness ==
    /\ GridDone
    /\ Len(names) = 5
    /\ cols = 3
    /\ rows = 2
    /\ Len(out[1]) = 3
    /\ Len(out[2]) = 2

\* the colour code the extension tables give a name that is no directory
CategoryCode(name) ==
    LET dots == {k \in 1..Len(name) : name[k] = 46}
        last == IF dots = {} THEN Len(name)
                ELSE CHOOSE k \in dots : \A j \in dots : j <= k
        ext == ToLower(SubSeq(name, last + 1, Len(name)))
    IN IF isExecutable(ext) THEN 32
       ELSE IF isArchive(ext) THEN 31
       ELSE IF isImageOrVideo(ext) THEN 35
       ELSE IF isAudio(ext) THEN 36
       ELSE 0

\* every cell wls has printed
AllCells == UNION { Range(out[r]) : r \in 1..Len(out) }

\* C5 as stated: every printed entry, in long and in grid mode, is blue when
\* it is a directory and otherwise has the colour of the category of its
\* lower-cased extension, so that names differing only in the case of the
\* extension are decorated alike and A.EXE is always green.
C5_DecoratedByCategoryAlways ==
    \A c \in AllCells :
        /\ StatOf(entries, c.name).isDir => c.code = 34
        /\ ~StatOf(entries, c.name).isDir => c.code = CategoryCode(c.name)

\* C5 amended: the same for every printed entry whose stat succeeds; an
\* entry whose stat fails is printed undecorated in grid mode and is not
\* printed at all in long mode.
C5_DecoratedByCategoryWhenStatSucceeds ==
    /\ \A c \in AllCells :
        LET fi == StatOf(entries, c.name) IN
        /\ fi.ok /\ fi.isDir => c.code = 34
        /\ fi.ok /\ ~fi.isDir => c.code = CategoryCode(c.name)
        /\ ~fi.ok => c.code = 0 /\ ~longFlag
    /\ \A c, d \in AllCells :
        /\ StatOf(entries, c.name).ok /\ ~StatOf(entries, c.name).isDir
        /\ StatOf(entries, d.name).ok /\ ~StatOf(entries, d.name).isDir
        /\ ToLower(Ext(c.name)) = ToLower(Ext(d.name))
        => c.code = d.code

\* a grid with A.EXE in green, the directory d.zip in blue and the dangling
\* lnk.mp3 undecorated
C5_Witness ==
    /\ GridDone
    /\ \E c \in AllCells : c.name = <<65, 46, 69, 88, 69>> /\ c.code = 32
    /\ \E c \in AllCells : c.name = <<100, 46, 122, 105, 112>> /\ c.code = 34
    /\ \E c \in AllCells :
         c.name = <<108, 110, 107, 46, 109, 112, 51>> /\ c.code = 0

\* C6 as stated: the exit code is 1 exactly when reading the directory fails
\* (nothing is listed then, and an "error:" line goes to standard error) and
\* 0 in every other case, whatever the arguments.
C6_ExitOneIffReadFailsElseZero ==
    pc = "exit" =>
        /\ exitCode = 1 <=> readErr
        /\ ~readErr => exitCode = 0
        /\ readErr => out = <<>> /\ errOut = <<"error:">>

\* C6 amended: the exit code is 2 when flag.Parse rejects the arguments (an
\* undefined flag, a malformed flag or a value that is no boolean; the
\* directory is not read then), 1 exactly when the arguments are accepted and
\* reading the directory fails (nothing is listed, an "error:" line goes to
\* standard error), and 0 in every other case: -h or -help, and every
\* listing, whether or not entries fail to stat.
C6_ExitCodes ==
    /\ pc # "exit" => exitCode = -1
    /\ pc = "exit" =>
        /\ exitCode \in {0, 1, 2}
        /\ exitCode = 2 <=> parseErr = "error"
        /\ exitCode = 1 <=> readErr
        /\ parseErr # "none" => ~readErr /\ entries = <<>> /\ out = <<>>
        /\ readErr => out = <<>> /\ errOut = <<"error:">>

\* the directory read has failed
C6_Witness ==
    /\ pc = "exit"
    /\ readErr
    /\ exitCode = 1
    /\ out = <<>>
    /\ errOut = <<"error:">>

\* the bytes and the terminal columns a line takes, colour codes left out
RECURSIVE LineBytes(_)
LineBytes(line) ==
    IF line = <<>> THEN 0
    ELSE Len(line[1].name) + line[1].pad + LineBytes(Tail(line))

RECURSIVE LineColumns(_)
LineColumns(line) ==
    IF line = <<>> THEN 0
    ELSE RuneCount(line[1].name) + line[1].pad + LineColumns(Tail(line))

\* C9: grid mode: in every row the last name printed (the one of the last
\* column, or the one whose next column index idx + rows is no index) has no
\* padding, every other name is followed by colWidth - len(name) spaces; so
\* every row holds a name, no line ends in a space, and the k-th name of a
\* row starts at visible column k * colWidth.
C9_PaddingAlignsColumns ==
    GridDone =>
        \A r \in 1..Len(out) :
            LET line == out[r]
                n == Len(names)
            IN
            /\ Len(line) >= 1
            /\ \A k \in 1..Len(line) :
                 LET idx == line[k].col * rows + (r - 1) IN
                 /\ k = Len(line) =>
                      /\ line[k].pad = 0
                      /\ line[k].col = cols - 1 \/ idx + rows >= n
                      /\ line[k].name[Len(line[k].name)] # 32
                 /\ k < Len(line) =>
                      /\ line[k].pad = colWidth - Len(line[k].name)
                      /\ line[k].col < cols - 1 /\ idx + rows < n
                 /\ LineColumns(SubSeq(line, 1, k - 1)) = (k - 1) * colWidth

\* C10: grid mode, for a non-empty list and a width w with maxLen + 2 <= w,
\* no line is wider than w (neither in bytes nor in terminal columns, colour
\* codes left out); a line is wider than w only when cols was clamped up to 1
\* because maxLen + 2 > w.
C10_LinesFitTheWidth ==
    GridDone =>
        \A r \in 1..Len(out) :
            /\ MaxLen(names) + 2 <= width =>
                 /\ LineBytes(out[r]) <= width
                 /\ LineColumns(out[r]) <= width
            /\ LineColumns(out[r]) > width =>
                 /\ MaxLen(names) + 2 > width
                 /\ cols = 1
                 /\ width \div colWidth = 0

\* three columns of width 4 in a terminal of width 12, the first line 10 wide
C10_Witness ==
    /\ GridDone
    /\ width = 12
    /\ colWidth = 4
    /\ cols = 3
    /\ \E r \in 1..Len(out) : Len(out[r]) = 3 /\ LineBytes(out[r]) >= 9

----------------------------------------------------------------------------
\* Properties of expandCombinedFlags.

\* what the two rules of the claim make of one token: a token of exactly two
\* characters, one that starts with "--" and one that does not start with
\* "-" stay; a token with a single dash and more than two characters becomes
\* one "-c" for each character c after the dash; no token is removed
RuleOutput(t) ==
    IF RuneCount(t) = 2 \/ HasPrefix(t, <<45, 45>>) \/ ~HasPrefix(t, <<45>>)
    THEN <<t>>
    ELSE IF RuneCount(t) > 2
    THEN LET cs == Runes(Tail(t)) IN [k \in 1..Len(cs) |-> <<45>> \o cs[k]]
    ELSE <<t>>

RECURSIVE RuleOutputs(_)
RuleOutputs(args) ==
    IF args = <<>> THEN <<>>
    ELSE RuleOutput(args[1]) \o RuleOutputs(Tail(args))

\* C3: expandCombinedFlags accounts for every token, in order, by one of two
\* rules (kept unchanged; or, with a single dash and more than two
\* characters, split into one "-c" for each character c after the dash); no
\* other token is added, altered or removed; empty input gives empty output.
C3_EveryTokenKeptOrSplit ==
    nPc \in {"once", "twice"} =>
        /\ nOnce = RuleOutputs(nArgs)
        /\ nArgs = <<>> => nOnce = <<>>

\* C4: expandCombinedFlags(expandCombinedFlags(A)) = expandCombinedFlags(A)
\* for every argument list A.
C4_ExpandIsIdempotent ==
    nPc = "twice" => nTwice = nOnce

----------------------------------------------------------------------------
\* Properties of wla.

\* s without its quotation marks
StripQuotes(s) == SelectSeq(s, LAMBDA b : b # 34)

QuoteCount(s) == Cardinality({k \in 1..Len(s) : s[k] = 34})

\* the arguments in their order, a space before each
RECURSIVE SpaceJoined(_)
SpaceJoined(args) ==
    IF args = <<>> THEN <<>>
    ELSE <<32>> \o args[1] \o SpaceJoined(Tail(args))

RECURSIVE QuoteCountAll(_)
QuoteCountAll(args) ==
    IF args = <<>> THEN 0
    ELSE QuoteCount(args[1]) + QuoteCountAll(Tail(args))

\* C7: wla builds the command "wls.exe -l -a" followed by its own arguments
\* in their order (an argument that holds a space between quotation marks),
\* spawns it and waits for the child to end before it exits: when the spawn
\* succeeds wla's exit code is the child's, all 32 bits of it; when the child
\* cannot be spawned wla exits with code 1 without waiting.
C7_WlaForwardsArgumentsAndExitCode ==
    /\ wlaPc \in {"built", "waiting"} \/ spawned # "no" =>
         /\ Len(cmd) >= 13
         /\ SubSeq(cmd, 1, 13)
              = <<119, 108, 115, 46, 101, 120, 101, 32, 45, 108, 32, 45, 97>>
         /\ StripQuotes(SubSeq(cmd, 14, Len(cmd)))
              = StripQuotes(SpaceJoined(argv))
         /\ QuoteCount(cmd)
              = QuoteCountAll(argv)
                  + 2 * Cardinality({k \in 1..Len(argv) : 32 \in Range(argv[k])})
    /\ childState # "none" => spawned = "ok"
    /\ spawned = "ok" /\ childState = "running" =>
         wlaPc = "waiting" /\ wlaExit = NoExit /\ ~waited
    /\ spawned = "ok" /\ wlaPc = "exit" =>
         childState = "terminated" /\ waited /\ wlaExit = childExit
    /\ waited => childState = "terminated" /\ wlaPc = "exit"
    /\ spawned = "failed" =>
         /\ wlaPc = "exit"
         /\ wlaExit = Dword(0, 1)
         /\ ~waited
         /\ childState = "none"

\* wla "a b" d has waited for a child that ended with 0xC0000005
C7_Witness ==
    /\ wlaPc = "exit"
    /\ argv = << <<97, 32, 98>>, <<100>> >>
    /\ spawned = "ok"
    /\ waited
    /\ childExit = Dword(49152, 5)
    /\ wlaExit = Dword(49152, 5)

----------------------------------------------------------------------------
\* Properties of wfile.

\* the extension of a path, lower case, without its dot
PathExt(f) ==
    LET dots == {k \in 1..Len(f.path) : f.path[k] = 46}
        last == IF dots = {} THEN Len(f.path)
                ELSE CHOOSE k \in dots : \A j \in dots : j <= k
    IN ToLower(SubSeq(f.path, last + 1, Len(f.path)))

ErrorLine(f) ==
    [stream |-> "stderr", path |-> f.path, ext |-> <<>>, typ |-> "Error"]

TypeLine(f, t) ==
    [stream |-> "stdout", path |-> f.path,
     ext |-> IF t = "directory" \/ PathExt(f) = <<>> THEN NoneText
             ELSE PathExt(f),
     typ |-> t]

\* the line the claim gives a path: the table, else the MIME lookup, else the
\* sniffing of the content, else "unknown"
ClaimedLine(f) ==
    IF ~f.statOK THEN ErrorLine(f)
    ELSE IF f.isDir THEN TypeLine(f, "directory")
    ELSE IF InCommon(PathExt(f)) THEN TypeLine(f, CommonType(PathExt(f)))
    ELSE IF PathExt(f) # <<>> /\ TypeByExtension(PathExt(f)) # ""
    THEN TypeLine(f, TypeByExtension(PathExt(f)))
    ELSE IF ~f.openOK THEN ErrorLine(f)
    ELSE IF f.sniff # "application/octet-stream" THEN TypeLine(f, f.sniff)
    ELSE TypeLine(f, "unknown")

\* the same, except that "unknown" is reported only for a path without an
\* extension: with one, the answer of the sniffing is reported as it is
AmendedLine(f) ==
    IF ~f.statOK THEN ErrorLine(f)
    ELSE IF f.isDir THEN TypeLine(f, "directory")
    ELSE IF InCommon(PathExt(f)) THEN TypeLine(f, CommonType(PathExt(f)))
    ELSE IF PathExt(f) # <<>> /\ TypeByExtension(PathExt(f)) # ""
    THEN TypeLine(f, TypeByExtension(PathExt(f)))
    ELSE IF ~f.openOK THEN ErrorLine(f)
    ELSE IF f.sniff = "application/octet-stream" /\ PathExt(f) = <<>>
    THEN TypeLine(f, "unknown")
    ELSE TypeLine(f, f.sniff)

\* C8 as stated: for every path that is no directory the type is the table's
\* if the lower-case extension is in it, else the MIME lookup's if it gives
\* one, else the result of sniffing the content, and "unknown" if none of
\* these identifies the file; a directory is "directory"; a stat failure gives
\* an Error line and the next argument is processed; every argument gives
\* exactly one line, in the order of the arguments.
C8_TableMimeSniffElseUnknown ==
    wfPc \in {"loop", "exit"} /\ Len(wfArgs) > 0 =>
        /\ Len(wfOut) = wfI
        /\ \A k \in 1..wfI : wfOut[k] = ClaimedLine(wfArgs[k])
        /\ wfPc = "exit" => wfI = Len(wfArgs)

\* C8 amended: as stated, except that "unknown" is reported only when the
\* path has no extension and the sniffing recognises nothing; for a path with
\* an extension that neither the table nor the MIME lookup knows, the result
\* of the sniffing is reported even when it is application/octet-stream.  A
\* file that cannot be opened for sniffing gives an Error line like a stat
\* failure.
C8_TableMimeSniffUnknownWithoutExtension ==
    wfPc \in {"loop", "exit"} /\ Len(wfArgs) > 0 =>
        /\ Len(wfOut) = wfI
        /\ \A k \in 1..wfI : wfOut[k] = AmendedLine(wfArgs[k])
        /\ wfPc = "exit" => wfI = Len(wfArgs) /\ wfExit = 0

\* wfile c.xyz d, neither recognised by the sniffing: the first is reported
\* as application/octet-stream, the second as unknown
C8_Witness ==
    /\ wfPc = "exit"
    /\ Len(wfArgs) = 2
    /\ wfArgs[1].path = <<99, 46, 120, 121, 122>>
    /\ wfArgs[2].path = <<100>>
    /\ wfOut[1].typ = "application/octet-stream"
    /\ wfOut[1].ext = <<120, 121, 122>>
    /\ wfOut[2].typ = "unknown"
    /\ wfOut[2].ext = NoneText

====
